---- MODULE Spec2Model ----
(***************************************************************************)
(* A model of aisuite's search facade: SearchClient (search_client.py),    *)
(* SearchProviderFactory (search_provider.py) and the three adapters under *)
(* search_providers/.                                                      *)
(*                                                                         *)
(* A Python str is a sequence of tokens; ":" is a token of its own and no  *)
(* other token holds a colon, so "serp:bing" is <<"serp", ":", "bing">>    *)
(* and "" is << >>.  None and "" are both << >> where the code only tests  *)
(* truthiness.  A Python dict whose iteration order matters is a sequence  *)
(* of [k, v] entries in insertion order; any other dict is a function.     *)
(***************************************************************************)
EXTENDS Naturals, Sequences, FiniteSets, TLC

VARIABLES
    env,          \* the names of the environment variables that are set
    defaultCfg,   \* the dict object bound to __init__'s default argument
    clients,      \* each SearchClient: alive, its provider_configs, its providers
    nConstructed, \* adapter instances constructed so far (the next instance's id - 1)
    last,         \* what the last call did: its arguments, outcome and the spies' logs
    threads,      \* concurrent callers of search: position and locals
    upstream      \* the reply the transport double is programmed with

vars == <<env, defaultCfg, clients, nConstructed, last, threads, upstream>>

(***************************************************************************)
(* Bounds                                                                  *)
(***************************************************************************)
MaxInstances == 3
MaxResults == 2
MaxArgKeys == 1
MaxEntries == 1

(***************************************************************************)
(* Strings and dicts                                                       *)
(***************************************************************************)
NoErr == "none"

Get(obj, key, default) == IF key \in DOMAIN obj THEN obj[key] ELSE default

Put(f, k, v) == [x \in (DOMAIN f) \cup {k} |-> IF x = k THEN v ELSE f[x]]

Merge(a, b) == [x \in (DOMAIN a) \cup (DOMAIN b) |-> IF x \in DOMAIN b THEN b[x] ELSE a[x]]

Truthy(s) == s # << >>

RECURSIVE Join(_, _)
Join(sep, parts) ==
    IF parts = << >> THEN << >>
    ELSE IF Len(parts) = 1 THEN parts[1]
    ELSE parts[1] \o sep \o Join(sep, Tail(parts))

IndexOf(s, c) ==
    IF \E i \in 1..Len(s) : s[i] = c
    THEN CHOOSE i \in 1..Len(s) : s[i] = c /\ \A j \in 1..(i - 1) : s[j] # c
    ELSE 0

PartitionLast(s, c) ==
    IF \E i \in 1..Len(s) : s[i] = c
    THEN LET i == CHOOSE i \in 1..Len(s) : s[i] = c /\ \A j \in (i + 1)..Len(s) : s[j] # c
         IN  <<SubSeq(s, 1, i - 1), <<c>>, SubSeq(s, i + 1, Len(s))>>
    ELSE <<s, << >>, << >>>>

Partition(s, c) ==
    LET i == IndexOf(s, c)
    IN  IF i = 0 THEN <<s, << >>, << >>>>
        ELSE <<SubSeq(s, 1, i - 1), <<c>>, SubSeq(s, i + 1, Len(s))>>

Replace(s, t) == SelectSeq(s, LAMBDA x : x # t)

DictKeys(d) == {d[i].k : i \in 1..Len(d)}

DictGet(d, key, default) ==
    IF key \in DictKeys(d) THEN d[CHOOSE i \in 1..Len(d) : d[i].k = key].v ELSE default

DictSet(d, key, val) ==
    IF key \in DictKeys(d)
    THEN [i \in 1..Len(d) |-> IF d[i].k = key THEN [k |-> key, v |-> val] ELSE d[i]]
    ELSE Append(d, [k |-> key, v |-> val])

RECURSIVE DictUpdate(_, _)
DictUpdate(d, other) ==
    IF other = << >> THEN d
    ELSE DictUpdate(DictSet(d, other[1].k, other[1].v), Tail(other))

(***************************************************************************)
(* The environment: credentials and the transport                          *)
(***************************************************************************)
EnvVars == {"SERP_API_KEY", "TAVILY_API_KEY", "YOU_COM_API_KEY"}

Getenv(name) == IF name \in env THEN <<"envkey">> ELSE << >>

\* The i-th upstream entry's value for a field: distinct per field and index.
Val(field, i) == <<field>> \o [j \in 1..i |-> "'"]

FullEntry(fields, i) == [f \in fields |-> Val(f, i)]

FullVideo(i) ==
    [f \in {"title", "link", "duration", "views", "channel", "description"} |->
        IF f = "channel" THEN [name |-> Val("name", i)] ELSE Val(f, i)]

\* What the transport double answers to a request: the programmed reply as it
\* is, or a body of n complete entries under the array the endpoint documents.
Upstream(scen, req) ==
    IF scen.kind = "raw" THEN scen.body
    ELSE LET n == scen.n
         IN  CASE req.endpoint = "serpapi" /\ req.params["engine"] = <<"youtube">> ->
                    [video_results |-> [i \in 1..n |-> FullVideo(i)]]
               [] req.endpoint = "serpapi" /\ req.params["engine"] # <<"youtube">> ->
                    [organic_results |-> [i \in 1..n |-> FullEntry({"title", "link", "snippet"}, i)]]
               [] req.endpoint = "tavily" ->
                    [results |-> [i \in 1..n |-> FullEntry({"title", "url", "content"}, i)]]
               [] req.endpoint = "you/search" ->
                    [hits |-> [i \in 1..n |-> FullEntry({"title", "url", "description"}, i)]]
               [] OTHER ->
                    [news |-> [results |-> [i \in 1..n |-> FullEntry({"title", "url", "description"}, i)]]]

NoRequests == << >>
NoResults == << >>

(***************************************************************************)
(* search_provider.py: SearchResult and SearchProviderFactory              *)
(***************************************************************************)
SearchResult(title, url, content, source) ==
    [title |-> title, url |-> url, content |-> content, source |-> source]

FileSuffix == "_search_provider"

\* The files of search_providers/ matching *_search_provider.py, by stem.
ProviderFiles == {<<"serp", FileSuffix>>, <<"tavily", FileSuffix>>, <<"you", FileSuffix>>}

GetSupportedProviders == {Replace(f, FileSuffix) : f \in ProviderFiles}

\* str.capitalize on the tokens provider keys are made of.
Capitalize(s) ==
    IF s = << >> THEN s
    ELSE <<CASE s[1] = "serp" -> "Serp"
             [] s[1] = "tavily" -> "Tavily"
             [] s[1] = "you" -> "You"
             [] OTHER -> s[1]>> \o Tail(s)

\* The class each adapter module defines.
ModuleClass(module) ==
    CASE module = <<"serp", FileSuffix>> -> <<"Serp", "SearchProvider">>
      [] module = <<"tavily", FileSuffix>> -> <<"Tavily", "SearchProvider">>
      [] module = <<"you", FileSuffix>> -> <<"You", "SearchProvider">>
      [] OTHER -> << >>

\* An adapter's __init__: api_key or os.getenv(var), ValueError when neither.
AdapterInit(cls, var, config, id) ==
    IF ~((DOMAIN config) \subseteq {"api_key"}) THEN [err |-> "TypeError"]
    ELSE LET explicit == Get(config, "api_key", << >>)
             api_key == IF Truthy(explicit) THEN explicit ELSE Getenv(var)
         IN  IF ~Truthy(api_key) THEN [err |-> "ValueError"]
             ELSE [err |-> NoErr, inst |-> [id |-> id, cls |-> cls, api_key |-> api_key]]

SerpSearchProvider(config, id) == AdapterInit("SerpSearchProvider", "SERP_API_KEY", config, id)

TavilySearchProvider(config, id) == AdapterInit("TavilySearchProvider", "TAVILY_API_KEY", config, id)

YouSearchProvider(config, id) == AdapterInit("YouSearchProvider", "YOU_COM_API_KEY", config, id)

CreateProvider(provider_key, config, id) ==
    LET provider_class_name == Capitalize(provider_key) \o <<"SearchProvider">>
        provider_module_name == provider_key \o <<FileSuffix>>
    IN  IF provider_module_name \notin ProviderFiles THEN [err |-> "ImportError"]
        ELSE IF ModuleClass(provider_module_name) # provider_class_name
        THEN [err |-> "AttributeError"]
        ELSE CASE provider_class_name = <<"Serp", "SearchProvider">> -> SerpSearchProvider(config, id)
               [] provider_class_name = <<"Tavily", "SearchProvider">> -> TavilySearchProvider(config, id)
               [] OTHER -> YouSearchProvider(config, id)

(***************************************************************************)
(* The adapters' search methods.  Each gives what the call did: the error  *)
(* it raised (NoErr when it returned), the requests it sent, its results.  *)
(***************************************************************************)
Raised(err, calls) == [err |-> err, calls |-> calls, results |-> NoResults]

Returned(calls, results) == [err |-> NoErr, calls |-> calls, results |-> results]

\* serp_search_provider.py, youtube_search's comprehension body
SerpVideoResult(result) ==
    SearchResult(
        Get(result, "title", << >>),
        Get(result, "link", << >>),
        <<"Duration", ":", " ">> \o Get(result, "duration", <<"N/A">>) \o <<" | ">>
            \o <<"Views", ":", " ">> \o Get(result, "views", <<"N/A">>) \o <<" | ">>
            \o <<"Channel", ":", " ">> \o Get(Get(result, "channel", << >>), "name", <<"N/A">>) \o <<" | ">>
            \o <<"Description", ":", " ">> \o Get(result, "description", << >>),
        <<"serpapi", ":", "youtube">>)

SerpYoutubeSearch(self, query, kwargs, scen) ==
    LET params == Merge([q |-> query, api_key |-> self.api_key, engine |-> <<"youtube">>], kwargs)
        req == [endpoint |-> "serpapi", params |-> params]
        results == Upstream(scen, req)
        video_results == Get(results, "video_results", << >>)
    IN  IF ~scen.ok THEN Raised("TransportError", <<req>>)
        ELSE Returned(<<req>>,
                      [i \in 1..Len(video_results) |-> SerpVideoResult(video_results[i])])

SerpOrganicResultWrongTag(result, engine) ==
    SearchResult(
        Get(result, "title", << >>),
        Get(result, "link", << >>),
        Get(result, "snippet", << >>),
        <<"serp", ":">> \o engine)

\* serp_search_provider.py, search's comprehension body
SerpOrganicResult(result, engine) ==
    SearchResult(
        Get(result, "title", << >>),
        Get(result, "link", << >>),
        Get(result, "snippet", << >>),
        <<"serpapi", ":">> \o engine)

SerpSearch(self, query, specific_function, kwargs, scen) ==
    IF specific_function = <<"youtube">> THEN SerpYoutubeSearch(self, query, kwargs, scen)
    ELSE LET params0 == Merge([q |-> query, api_key |-> self.api_key, engine |-> <<"google">>], kwargs)
             params == IF Truthy(specific_function)
                       THEN [params0 EXCEPT !["engine"] = specific_function]
                       ELSE params0
             req == [endpoint |-> "serpapi", params |-> params]
             results == Upstream(scen, req)
             organic_results == Get(results, "organic_results", << >>)
         IN  IF ~scen.ok THEN Raised("TransportError", <<req>>)
             ELSE Returned(<<req>>,
                           [i \in 1..Len(organic_results) |->
                               SerpOrganicResult(organic_results[i], params["engine"])])

TavilyResultDefaultNA(result) ==
    SearchResult(
        Get(result, "title", << >>),
        Get(result, "url", << >>),
        Get(result, "content", <<"N/A">>),
        <<"tavily">>)

\* tavily_search_provider.py, search's comprehension body
TavilyResult(result) ==
    SearchResult(
        Get(result, "title", << >>),
        Get(result, "url", << >>),
        Get(result, "content", << >>),
        <<"tavily">>)

TavilySearch(self, query, specific_function, kwargs, scen) ==
    LET req == [endpoint |-> "tavily", params |-> Merge([query |-> query], kwargs)]
        response == Upstream(scen, req)
        results == Get(response, "results", << >>)
    IN  IF ~scen.ok THEN Raised("TransportError", <<req>>)
        ELSE Returned(<<req>>, [i \in 1..Len(results) |-> TavilyResult(results[i])])

\* you_search_provider.py, get_news's comprehension body
YouNewsResult(result) ==
    SearchResult(
        Get(result, "title", << >>),
        Get(result, "url", << >>),
        Get(result, "description", << >>),
        <<"you", ".com", ":", "news">>)

YouGetNews(self, query, kwargs, scen) ==
    LET req == [endpoint |-> "you/news", params |-> Merge([q |-> query], kwargs)]
        data == Upstream(scen, req)
        results == Get(Get(data, "news", << >>), "results", << >>)
    IN  IF ~scen.ok THEN Raised("TransportError", <<req>>)
        ELSE Returned(<<req>>, [i \in 1..Len(results) |-> YouNewsResult(results[i])])

\* you_search_provider.py, search's comprehension body
YouHitResult(hit) ==
    SearchResult(
        Get(hit, "title", << >>),
        Get(hit, "url", << >>),
        IF Truthy(Get(hit, "description", << >>))
        THEN Get(hit, "description", << >>)
        ELSE Join(<<" ">>, Get(hit, "snippets", << >>)),
        <<"you", ".com">>)

YouSearch(self, query, specific_function, kwargs, scen) ==
    IF specific_function = <<"get_news">> THEN YouGetNews(self, query, kwargs, scen)
    ELSE LET req == [endpoint |-> "you/search", params |-> Merge([query |-> query], kwargs)]
             data == Upstream(scen, req)
             hits == Get(data, "hits", << >>)
         IN  IF ~scen.ok THEN Raised("TransportError", <<req>>)
             ELSE Returned(<<req>>, [i \in 1..Len(hits) |-> YouHitResult(hits[i])])

\* provider_instance.search(...): the dispatch on the instance's class
AdapterSearch(self, query, specific_function, kwargs, scen) ==
    CASE self.cls = "SerpSearchProvider" -> SerpSearch(self, query, specific_function, kwargs, scen)
      [] self.cls = "TavilySearchProvider" -> TavilySearch(self, query, specific_function, kwargs, scen)
      [] OTHER -> YouSearch(self, query, specific_function, kwargs, scen)

(***************************************************************************)
(* search_client.py: SearchClient                                          *)
(***************************************************************************)
ClientIds == {"A", "B"}

NoProviders == << >>

NoClient == [alive |-> FALSE, shared |-> FALSE, own |-> << >>, providers |-> NoProviders]

\* self.provider_configs: the default argument's dict object when the client
\* was built without an argument, the caller's dict otherwise.
Configs(c) == IF clients[c].shared THEN defaultCfg ELSE clients[c].own

ValidateAnyKey(provider_key) == TRUE

ValidateProviderKey(provider_key) == provider_key \in GetSupportedProviders

\* The loop of _initialize_providers from the i-th entry on: the providers map
\* as the loop leaves it, the instances constructed and the error that ended it.
RECURSIVE InitializeFrom(_, _, _, _, _)
InitializeFrom(cfg, i, providers, n, ctor) ==
    IF i > Len(cfg) THEN [err |-> NoErr, providers |-> providers, n |-> n, ctor |-> ctor]
    ELSE IF ~ValidateProviderKey(cfg[i].k)
    THEN [err |-> "ValueError", providers |-> providers, n |-> n, ctor |-> ctor]
    ELSE LET made == CreateProvider(cfg[i].k, cfg[i].v, n + 1)
         IN  IF made.err # NoErr
             THEN [err |-> made.err, providers |-> providers, n |-> n, ctor |-> ctor + 1]
             ELSE InitializeFrom(cfg, i + 1, Put(providers, cfg[i].k, made.inst), n + 1, ctor + 1)

InitializeProviders(cfg, providers, n) == InitializeFrom(cfg, 1, providers, n, 0)

IsMissingAlways(provider_key, providers) == TRUE

\* if provider_key not in self.providers
IsMissing(provider_key, providers) == provider_key \notin DOMAIN providers

\* SearchClient.search on a client with these providers and provider_configs.
SearchCall(providers, configs, n, provider, query, kwargs, scen) ==
    LET parts == Partition(provider, ":")
        provider_key == parts[1]
        specific_function == parts[3]
        stay == [providers |-> providers, n |-> n, ctor |-> 0, calls |-> NoRequests,
                 results |-> NoResults, delegate |-> 0]
    IN  IF ~ValidateProviderKey(provider_key) THEN stay @@ [err |-> "ValueError"]
        ELSE LET missing == IsMissing(provider_key, providers)
                 made == IF missing
                         THEN CreateProvider(provider_key, DictGet(configs, provider_key, << >>), n + 1)
                         ELSE [err |-> NoErr, inst |-> providers[provider_key]]
             IN  IF made.err # NoErr
                 THEN [stay EXCEPT !.ctor = 1] @@ [err |-> made.err]
                 ELSE LET provider_instance == made.inst
                          out == AdapterSearch(provider_instance, query, specific_function, kwargs, scen)
                      IN  [err |-> out.err,
                           providers |-> IF missing THEN Put(providers, provider_key, made.inst) ELSE providers,
                           n |-> IF missing THEN n + 1 ELSE n,
                           ctor |-> IF missing THEN 1 ELSE 0,
                           calls |-> out.calls,
                           results |-> out.results,
                           delegate |-> provider_instance.id]

(***************************************************************************)
(* The calls a program makes, and what it may pass                         *)
(***************************************************************************)
ConfigKeys == {<<"serp">>, <<"you">>, <<"you", ".com">>}

Options == {<< >>, [api_key |-> <<"k">>]}

ConfigEntries == {[k |-> key, v |-> opts] : key \in ConfigKeys, opts \in Options}

\* dict literals of at most MaxArgKeys entries
ConfigArgs ==
    UNION {{d \in [1..len -> ConfigEntries] : \A i, j \in 1..len : i # j => d[i].k # d[j].k}
           : len \in 0..MaxArgKeys}

\* provider strings: every adapter, no key, one key outside the registry; no
\* sub-function, an empty one, each named one, an unnamed one, one with a colon
ProviderStrings ==
    {<<"serp">> \o sub : sub \in {<< >>, <<":">>, <<":", "youtube">>, <<":", "get_news">>,
                                   <<":", "bing">>, <<":", "bing", ":", "x">>}}
        \cup {<<"you">> \o sub : sub \in {<< >>, <<":", "get_news">>, <<":", "bing">>}}
        \cup {<<"tavily">> \o sub : sub \in {<< >>, <<":", "get_news">>}}
        \cup {<<"you", ".com">> \o sub : sub \in {<< >>, <<":", "get_news">>}}
        \cup {<< >>}

PlainProviderStrings == {<<"serp">>, <<"you">>, <<"you", ".com">>, <<"you", ":", "get_news">>}

Queries == {<<"cats">>}

KwargsArgs == {<< >>, [engine |-> <<"baidu">>]}

\* The transport double: it fails, or answers with n complete entries.
Scenarios ==
    {[kind |-> "mock", ok |-> FALSE, n |-> 0]}
        \cup {[kind |-> "mock", ok |-> TRUE, n |-> n] : n \in 0..MaxResults}

PlainScenarios == {[kind |-> "mock", ok |-> ok, n |-> 0] : ok \in BOOLEAN}

NoUpstream == [kind |-> "mock", ok |-> TRUE, n |-> 0]

NoCall ==
    [op |-> "none", client |-> "", given |-> FALSE, cfg |-> << >>, provider |-> << >>,
     kwargs |-> << >>, scen |-> NoUpstream, err |-> NoErr, ctor |-> 0, calls |-> NoRequests,
     results |-> NoResults, delegate |-> 0]

\* No call is in progress and the caller holds no outcome of one.
Idle == last.op = "none"

\* The caller is done with the outcome of its last call.
Return ==
    /\ ~Idle
    /\ last' = NoCall
    /\ UNCHANGED <<env, defaultCfg, clients, nConstructed, threads, upstream>>

\* SearchClient(provider_configs) when given, SearchClient() otherwise
NewClient(c, given, arg) ==
    /\ Idle
    /\ ~clients[c].alive
    /\ LET cfg == IF given THEN arg ELSE defaultCfg
           r == InitializeProviders(cfg, NoProviders, nConstructed)
       IN  /\ r.n <= MaxInstances
           /\ clients' = IF r.err # NoErr THEN clients
                         ELSE [clients EXCEPT ![c] =
                                  [alive |-> TRUE, shared |-> ~given,
                                   own |-> IF given THEN arg ELSE << >>,
                                   providers |-> r.providers]]
           /\ nConstructed' = r.n
           /\ last' = [NoCall EXCEPT !.op = "new", !.client = c, !.given = given,
                                     !.cfg = IF given THEN arg ELSE << >>,
                                     !.err = r.err, !.ctor = r.ctor]
    /\ UNCHANGED <<env, defaultCfg, threads, upstream>>

ConfigureSkipsEmpty(c, given, arg) ==
    /\ Idle
    /\ clients[c].alive
    /\ IF ~given \/ arg = << >>
       THEN /\ last' = [NoCall EXCEPT !.op = "configure", !.client = c, !.given = given]
            /\ UNCHANGED <<clients, defaultCfg, nConstructed>>
       ELSE LET merged == DictUpdate(Configs(c), arg)
                r == InitializeProviders(merged, clients[c].providers, nConstructed)
            IN  /\ r.n <= MaxInstances
                /\ defaultCfg' = IF clients[c].shared THEN merged ELSE defaultCfg
                /\ clients' = [clients EXCEPT
                                  ![c].own = IF clients[c].shared THEN @ ELSE merged,
                                  ![c].providers = r.providers]
                /\ nConstructed' = r.n
                /\ last' = [NoCall EXCEPT !.op = "configure", !.client = c, !.given = TRUE,
                                          !.cfg = arg, !.err = r.err, !.ctor = r.ctor]
    /\ UNCHANGED <<env, threads, upstream>>

\* client.configure(provider_configs) when given, client.configure() otherwise
Configure(c, given, arg) ==
    /\ Idle
    /\ clients[c].alive
    /\ IF ~given
       THEN /\ last' = [NoCall EXCEPT !.op = "configure", !.client = c]
            /\ UNCHANGED <<clients, defaultCfg, nConstructed>>
       ELSE LET merged == DictUpdate(Configs(c), arg)
                r == InitializeProviders(merged, clients[c].providers, nConstructed)
            IN  /\ r.n <= MaxInstances
                /\ defaultCfg' = IF clients[c].shared THEN merged ELSE defaultCfg
                /\ clients' = [clients EXCEPT
                                  ![c].own = IF clients[c].shared THEN @ ELSE merged,
                                  ![c].providers = r.providers]
                /\ nConstructed' = r.n
                /\ last' = [NoCall EXCEPT !.op = "configure", !.client = c, !.given = TRUE,
                                          !.cfg = arg, !.err = r.err, !.ctor = r.ctor]
    /\ UNCHANGED <<env, threads, upstream>>

\* client.search(provider, query, **kwargs)
Search(c, provider, query, kwargs, scen) ==
    /\ Idle
    /\ clients[c].alive
    /\ LET r == SearchCall(clients[c].providers, Configs(c), nConstructed,
                           provider, query, kwargs, scen)
       IN  /\ r.n <= MaxInstances
           /\ clients' = [clients EXCEPT ![c].providers = r.providers]
           /\ nConstructed' = r.n
           /\ last' = [NoCall EXCEPT !.op = "search", !.client = c, !.provider = provider,
                                     !.kwargs = kwargs, !.scen = scen, !.err = r.err, !.ctor = r.ctor,
                                     !.calls = r.calls, !.results = r.results,
                                     !.delegate = r.delegate]
    /\ UNCHANGED <<env, defaultCfg, threads, upstream>>

\* os.environ[name] = ...
SetEnv(name) ==
    /\ Idle
    /\ name \notin env
    /\ env' = env \cup {name}
    /\ last' = [NoCall EXCEPT !.op = "setenv"]
    /\ UNCHANGED <<defaultCfg, clients, nConstructed, threads, upstream>>

\* del os.environ[name]
UnsetEnv(name) ==
    /\ Idle
    /\ name \in env
    /\ env' = env \ {name}
    /\ last' = [NoCall EXCEPT !.op = "unsetenv"]
    /\ UNCHANGED <<defaultCfg, clients, nConstructed, threads, upstream>>

NoThreads == << >>

Init ==
    /\ env = {}
    /\ defaultCfg = << >>
    /\ clients = [c \in ClientIds |-> NoClient]
    /\ nConstructed = 0
    /\ last = NoCall
    /\ threads = NoThreads
    /\ upstream = NoUpstream

\* The life of one client: construction, configure, search, and the
\* environment changing under it.
Next ==
    \/ \E c \in {"A"}, given \in BOOLEAN, arg \in ConfigArgs : NewClient(c, given, arg)
    \/ \E c \in {"A"}, given \in BOOLEAN, arg \in ConfigArgs : Configure(c, given, arg)
    \/ \E c \in {"A"}, provider \in PlainProviderStrings, scen \in PlainScenarios :
            Search(c, provider, <<"cats">>, << >>, scen)
    \/ \E name \in {"SERP_API_KEY", "YOU_COM_API_KEY"} : SetEnv(name)
    \/ \E name \in {"SERP_API_KEY", "YOU_COM_API_KEY"} : UnsetEnv(name)
    \/ Return

Spec == Init /\ [][Next]_vars

\* One client, built under any environment, and every kind of search on it.
SearchInit ==
    /\ env \in SUBSET EnvVars
    /\ defaultCfg = << >>
    /\ clients = [c \in ClientIds |-> NoClient]
    /\ nConstructed = 0
    /\ last = NoCall
    /\ threads = NoThreads
    /\ upstream = NoUpstream

SearchNext ==
    \/ \E given \in BOOLEAN, arg \in ConfigArgs : NewClient("A", given, arg)
    \/ \E provider \in ProviderStrings, query \in Queries, kwargs \in KwargsArgs,
          scen \in Scenarios :
            Search("A", provider, query, kwargs, scen)
    \/ Return

SearchSpec == SearchInit /\ [][SearchNext]_vars

\* Two clients built without an argument, with every credential in the
\* environment or none.
SharedInit ==
    /\ env \in {{}, EnvVars}
    /\ defaultCfg = << >>
    /\ clients = [c \in ClientIds |-> NoClient]
    /\ nConstructed = 0
    /\ last = NoCall
    /\ threads = NoThreads
    /\ upstream = NoUpstream

SharedNext ==
    \/ \E c \in ClientIds : NewClient(c, FALSE, << >>)
    \/ \E c \in ClientIds, given \in BOOLEAN, arg \in ConfigArgs : Configure(c, given, arg)
    \/ \E c \in ClientIds, provider \in {<<"serp">>, <<"you", ".com">>} :
            Search(c, provider, <<"cats">>, << >>, NoUpstream)
    \/ Return

SharedSpec == SharedInit /\ [][SharedNext]_vars

(***************************************************************************)
(* Normalization: one client under a full environment, the transport       *)
(* double programmed with any body, complete or not.                       *)
(***************************************************************************)
Presence(fields) == UNION {[present -> {"v"}] : present \in SUBSET fields}

\* a JSON object holding any of these fields, each a non-empty string
PartialEntries(fields) == {[f \in DOMAIN p |-> <<f>>] : p \in Presence(fields)}

ChannelValues == {<< >>, [name |-> <<"name">>]}

VideoEntries ==
    PartialEntries({"title", "link", "duration", "views", "description"})
        \cup {e @@ [channel |-> ch] :
                e \in PartialEntries({"title", "link", "duration", "views", "description"}),
                ch \in ChannelValues}

HitEntries ==
    {e @@ d @@ sn :
        e \in PartialEntries({"title", "url"}),
        d \in {<< >>, [description |-> << >>], [description |-> <<"description">>]},
        sn \in {<< >>, [snippets |-> << >>], [snippets |-> <<<<"s1">>, <<"s2">>>>]}}

Arrays(entries) == UNION {[1..len -> entries] : len \in 0..MaxEntries}

RawBodies ==
    {<< >>, [news |-> << >>]}
        \cup {[organic_results |-> a] : a \in Arrays(PartialEntries({"title", "link", "snippet"}))}
        \cup {[video_results |-> a] : a \in Arrays(VideoEntries)}
        \cup {[results |-> a] : a \in Arrays(PartialEntries({"title", "url", "content"}))}
        \cup {[hits |-> a] : a \in Arrays(HitEntries)}
        \cup {[news |-> [results |-> a]] :
                a \in Arrays(PartialEntries({"title", "url", "description"}))}

NormProviderStrings ==
    {<<"serp">>, <<"serp", ":", "youtube">>, <<"serp", ":", "bing">>, <<"tavily">>,
     <<"you">>, <<"you", ":", "get_news">>}

\* Client A, built without an argument under a full environment, after it
\* has searched each provider once.
NormInit ==
    /\ env = EnvVars
    /\ defaultCfg = << >>
    /\ nConstructed = 3
    /\ clients = [c \in ClientIds |->
                    IF c = "A"
                    THEN [alive |-> TRUE, shared |-> TRUE, own |-> << >>,
                          providers |->
                              [k \in GetSupportedProviders |->
                                  CreateProvider(k, << >>,
                                                 CASE k = <<"serp">> -> 1
                                                   [] k = <<"tavily">> -> 2
                                                   [] OTHER -> 3).inst]]
                    ELSE NoClient]
    /\ last = NoCall
    /\ threads = NoThreads
    /\ upstream \in {[kind |-> "raw", ok |-> TRUE, body |-> b] : b \in RawBodies}

NormNext ==
    \/ \E provider \in NormProviderStrings, kwargs \in KwargsArgs :
            Search("A", provider, <<"cats">>, kwargs, upstream)
    \/ Return

NormSpec == NormInit /\ [][NormNext]_vars

(***************************************************************************)
(* Concurrent callers of search on one client.  A thread may be preempted  *)
(* between any two statements of search, and between the call of           *)
(* create_provider and the store of its result into self.providers.        *)
(***************************************************************************)
ThreadIds == {"t1", "t2"}

NoInstance == [id |-> 0, cls |-> "", api_key |-> << >>]

IdleThread ==
    [pc |-> "idle", key |-> << >>, sub |-> << >>, made |-> NoInstance,
     inst |-> NoInstance, err |-> NoErr, results |-> NoResults]

\* provider.partition(":") and _validate_provider_key
Enter(t, provider) ==
    /\ threads[t].pc = "idle"
    /\ LET parts == Partition(provider, ":")
       IN  threads' = [threads EXCEPT ![t] =
                IF ~ValidateProviderKey(parts[1])
                THEN [IdleThread EXCEPT !.pc = "raised", !.key = parts[1], !.sub = parts[3],
                                        !.err = "ValueError"]
                ELSE [IdleThread EXCEPT !.pc = "check", !.key = parts[1], !.sub = parts[3]]]
    /\ UNCHANGED <<env, defaultCfg, clients, nConstructed, last, upstream>>

\* if provider_key not in self.providers
Check(t) ==
    /\ threads[t].pc = "check"
    /\ threads' = [threads EXCEPT ![t].pc =
            IF threads[t].key \notin DOMAIN clients["A"].providers THEN "create" ELSE "load"]
    /\ UNCHANGED <<env, defaultCfg, clients, nConstructed, last, upstream>>

\* config = self.provider_configs.get(...); SearchProviderFactory.create_provider(...)
Create(t) ==
    /\ threads[t].pc = "create"
    /\ LET made == CreateProvider(threads[t].key, DictGet(Configs("A"), threads[t].key, << >>),
                                  nConstructed + 1)
       IN  IF made.err # NoErr
           THEN /\ threads' = [threads EXCEPT ![t].pc = "raised", ![t].err = made.err]
                /\ UNCHANGED nConstructed
           ELSE /\ nConstructed + 1 <= MaxInstances
                /\ threads' = [threads EXCEPT ![t].pc = "store", ![t].made = made.inst]
                /\ nConstructed' = nConstructed + 1
    /\ UNCHANGED <<env, defaultCfg, clients, last, upstream>>

StoreIfAbsent(t) ==
    /\ threads[t].pc = "store"
    /\ clients' = [clients EXCEPT !["A"].providers =
            IF threads[t].key \in DOMAIN @ THEN @ ELSE Put(@, threads[t].key, threads[t].made)]
    /\ threads' = [threads EXCEPT ![t].pc = "load"]
    /\ UNCHANGED <<env, defaultCfg, nConstructed, last, upstream>>

\* self.providers[provider_key] = <the adapter just created>
Store(t) ==
    /\ threads[t].pc = "store"
    /\ clients' = [clients EXCEPT !["A"].providers = Put(@, threads[t].key, threads[t].made)]
    /\ threads' = [threads EXCEPT ![t].pc = "load"]
    /\ UNCHANGED <<env, defaultCfg, nConstructed, last, upstream>>

\* provider_instance = self.providers.get(provider_key)
Load(t) ==
    /\ threads[t].pc = "load"
    /\ threads' = [threads EXCEPT ![t] =
            IF threads[t].key \in DOMAIN clients["A"].providers
            THEN [@ EXCEPT !.pc = "delegate", !.inst = clients["A"].providers[threads[t].key]]
            ELSE [@ EXCEPT !.pc = "raised", !.err = "ValueError"]]
    /\ UNCHANGED <<env, defaultCfg, clients, nConstructed, last, upstream>>

\* return provider_instance.search(query, specific_function=..., **kwargs)
Delegate(t, scen) ==
    /\ threads[t].pc = "delegate"
    /\ LET out == AdapterSearch(threads[t].inst, <<"cats">>, threads[t].sub, << >>, scen)
       IN  threads' = [threads EXCEPT ![t].pc = IF out.err = NoErr THEN "returned" ELSE "raised",
                                      ![t].err = out.err,
                                      ![t].results = out.results]
    /\ UNCHANGED <<env, defaultCfg, clients, nConstructed, last, upstream>>

\* The caller is done with the outcome.
Finish(t) ==
    /\ threads[t].pc \in {"returned", "raised"}
    /\ threads' = [threads EXCEPT ![t] = IdleThread]
    /\ UNCHANGED <<env, defaultCfg, clients, nConstructed, last, upstream>>

\* Client A as its construction with some configuration left it.
ConcInit ==
    /\ env \in SUBSET EnvVars
    /\ defaultCfg = << >>
    /\ nConstructed \in 0..MaxArgKeys
    /\ \E arg \in ConfigArgs :
          LET r == InitializeProviders(arg, NoProviders, 0)
          IN  /\ r.err = NoErr
              /\ nConstructed = r.n
              /\ clients = [c \in ClientIds |->
                              IF c = "A"
                              THEN [alive |-> TRUE, shared |-> FALSE, own |-> arg,
                                    providers |-> r.providers]
                              ELSE NoClient]
    /\ last = NoCall
    /\ threads = [t \in ThreadIds |-> IdleThread]
    /\ upstream = NoUpstream

ConcNext ==
    \/ \E t \in ThreadIds, provider \in PlainProviderStrings : Enter(t, provider)
    \/ \E t \in ThreadIds : Check(t)
    \/ \E t \in ThreadIds : Create(t)
    \/ \E t \in ThreadIds : Store(t)
    \/ \E t \in ThreadIds : Load(t)
    \/ \E t \in ThreadIds, scen \in PlainScenarios : Delegate(t, scen)
    \/ \E t \in ThreadIds : Finish(t)

ConcSpec == ConcInit /\ [][ConcNext]_vars

(***************************************************************************)
(* The properties checked                                                  *)
(***************************************************************************)
\* The text of a provider string before its first ":", all of it when it has none.
SpecKey(provider) ==
    IF \E i \in 1..Len(provider) : provider[i] = ":"
    THEN SubSeq(provider, 1,
                (CHOOSE i \in 1..Len(provider) :
                    provider[i] = ":" /\ \A j \in 1..(i - 1) : provider[j] # ":") - 1)
    ELSE provider

\* The text of a provider string after its first ":", empty when it has none.
SpecSub(provider) == SubSeq(provider, Len(SpecKey(provider)) + 2, Len(provider))

\* A client's provider_configs after the step.
ConfigsAfter(c) == IF clients'[c].shared THEN defaultCfg' ELSE clients'[c].own

\* C1 as the specification states it: a search whose provider key is not in
\* the client's configuration map, or not a supported provider, raises the
\* configuration error with no adapter constructor invoked and no request sent.
C1_UnconfiguredOrUnknownRaises ==
    (/\ last.op = "search"
     /\ \/ SpecKey(last.provider) \notin DictKeys(Configs(last.client))
        \/ SpecKey(last.provider) \notin GetSupportedProviders)
        => /\ last.err = "ValueError"
           /\ last.ctor = 0
           /\ last.calls = NoRequests

\* C1, amended: a search whose provider key is not a supported provider
\* raises ValueError with no adapter constructor invoked, no request sent and
\* no adapter cached, whether or not the key is in the configuration map.
C1_UnknownRaises ==
    (/\ last.op = "search"
     /\ SpecKey(last.provider) \notin GetSupportedProviders)
        => /\ last.err = "ValueError"
           /\ last.ctor = 0
           /\ last.calls = NoRequests
           /\ last.delegate = 0
           /\ SpecKey(last.provider) \notin DOMAIN clients[last.client].providers

C1_Witness ==
    /\ last.op = "search"
    /\ SpecKey(last.provider) = <<"you", ".com">>
    /\ last.err = "ValueError"

\* C2: a search naming a key with a cached adapter constructs nothing, leaves
\* the adapter map as it is and is delegated to the cached instance, whatever
\* the sub-function; a search naming a key with none constructs at most one
\* adapter, from the option map on file or an empty one, caches it and is
\* delegated to it; a client's construction builds one adapter per configured key.
C2_AdapterCache ==
    [][/\ last'.op = "search" =>
            LET c == last'.client
                k == SpecKey(last'.provider)
                before == clients[c].providers
                after == clients'[c].providers
                opts == DictGet(Configs(c), k, << >>)
            IN  /\ k \in DOMAIN before =>
                    /\ after = before
                    /\ nConstructed' = nConstructed
                    /\ last'.ctor = 0
                    /\ last'.delegate = before[k].id
                /\ k \notin DOMAIN before =>
                    /\ last'.ctor <= 1
                    /\ nConstructed' <= nConstructed + 1
                    /\ \A x \in DOMAIN before : x \in DOMAIN after /\ after[x] = before[x]
                    /\ (DOMAIN after) \subseteq (DOMAIN before) \cup {k}
                    /\ k \in DOMAIN after =>
                        /\ nConstructed' = nConstructed + 1
                        /\ after[k].id = nConstructed'
                        /\ last'.delegate = after[k].id
                        /\ after[k].api_key =
                              IF "api_key" \in DOMAIN opts THEN opts["api_key"] ELSE <<"envkey">>
       /\ (last'.op = "new" /\ last'.err = NoErr) =>
            /\ DOMAIN clients'[last'.client].providers = DictKeys(ConfigsAfter(last'.client))
            /\ nConstructed' = nConstructed + Len(ConfigsAfter(last'.client))
      ]_vars

\* A search with a sub-function reuses an adapter that an earlier search built on demand.
C2_Witness ==
    /\ last.op = "search"
    /\ last.ctor = 0
    /\ last.delegate # 0
    /\ SpecSub(last.provider) # << >>
    /\ SpecKey(last.provider) \notin DictKeys(Configs(last.client))

\* C3 as the specification states it: configure with no argument, and
\* configure with an empty one, leave the configuration map and every cached
\* adapter as they were and invoke no adapter constructor.
C3_EmptyConfigureIsNoOp ==
    [][(/\ last'.op = "configure"
        /\ (~last'.given \/ last'.cfg = << >>))
           => /\ ConfigsAfter(last'.client) = Configs(last'.client)
              /\ clients'[last'.client].providers = clients[last'.client].providers
              /\ last'.ctor = 0
      ]_vars

\* C3, amended: configure with no argument changes nothing, invokes no
\* constructor and does not raise.  configure with an empty dict leaves the
\* configuration map as it was and runs _initialize_providers on it: when it
\* returns, every configured key holds an adapter constructed by this call and
\* any other cached adapter is the one it was; when it raises, no adapter has
\* been dropped.
C3_OnlyAbsentIsNoOp ==
    [][last'.op = "configure" =>
            LET c == last'.client
                before == clients[c].providers
                after == clients'[c].providers
            IN  /\ ~last'.given =>
                    /\ clients' = clients
                    /\ defaultCfg' = defaultCfg
                    /\ nConstructed' = nConstructed
                    /\ last'.ctor = 0
                    /\ last'.err = NoErr
                /\ (last'.given /\ last'.cfg = << >>) =>
                    /\ ConfigsAfter(c) = Configs(c)
                    /\ (DOMAIN before) \subseteq (DOMAIN after)
                    /\ \A k \in (DOMAIN before) \ DictKeys(Configs(c)) : after[k] = before[k]
                    /\ last'.err = NoErr =>
                        /\ last'.ctor = Len(Configs(c))
                        /\ nConstructed' = nConstructed + Len(Configs(c))
                        /\ \A k \in DictKeys(Configs(c)) :
                              k \in DOMAIN after /\ after[k].id > nConstructed
      ]_vars

\* configure({}) returned and replaced a cached adapter.
C3_Witness ==
    /\ last.op = "configure"
    /\ last.given
    /\ last.cfg = << >>
    /\ last.err = NoErr
    /\ last.ctor > 0
    /\ nConstructed > last.ctor

\* C9: an operation on one client leaves every other client's configuration
\* map and adapter map as they were, and a client built without an argument
\* starts with an empty configuration map and no adapter.
C9_ConfigurationsNotShared ==
    [][/\ last'.op \in {"configure", "search"} =>
            \A b \in ClientIds \ {last'.client} :
                clients[b].alive =>
                    /\ ConfigsAfter(b) = Configs(b)
                    /\ clients'[b].providers = clients[b].providers
       /\ (last'.op = "new" /\ ~last'.given /\ last'.err = NoErr) =>
            /\ ConfigsAfter(last'.client) = << >>
            /\ clients'[last'.client].providers = NoProviders
      ]_vars

\* C10: a configure that raises leaves the client's configuration map and
\* adapter map as they were before the call.
C10_FailedConfigureChangesNothing ==
    [][(last'.op = "configure" /\ last'.err # NoErr)
           => /\ ConfigsAfter(last'.client) = Configs(last'.client)
              /\ clients'[last'.client].providers = clients[last'.client].providers
      ]_vars

\* C4: construction on first use is not mutually exclusive.  A thread that
\* found the key missing constructs a new adapter whatever the adapter map
\* holds by then, and its store puts that adapter in the map over any adapter
\* another thread stored in between.
C4_ConstructionNotExclusive ==
    [][\A t \in ThreadIds :
          /\ (threads[t].pc = "create" /\ threads'[t].pc = "store") =>
                /\ nConstructed' = nConstructed + 1
                /\ threads'[t].made.id = nConstructed'
          /\ (threads[t].pc = "store" /\ threads'[t].pc = "load") =>
                /\ clients'["A"].providers[threads[t].key] = threads[t].made
                /\ \A k \in (DOMAIN clients["A"].providers) \ {threads[t].key} :
                      clients'["A"].providers[k] = clients["A"].providers[k]
      ]_vars

\* Two threads both found the same key missing, each constructed an adapter
\* for it, and the map holds the one stored last.
C4_Witness ==
    \E t1, t2 \in ThreadIds :
        /\ t1 # t2
        /\ threads[t1].key = threads[t2].key
        /\ threads[t1].pc \in {"load", "delegate", "returned", "raised"}
        /\ threads[t2].pc \in {"delegate", "returned", "raised"}
        /\ threads[t1].made.id # 0
        /\ threads[t2].made.id # 0
        /\ threads[t1].made.id # threads[t2].made.id
        /\ clients["A"].providers[threads[t1].key] = threads[t1].made
        /\ threads[t2].inst = threads[t2].made

\* The normalized form of the i-th complete organic_results entry, tagged.
ExpectedOrganic(i, source) ==
    [title |-> Val("title", i), url |-> Val("link", i), content |-> Val("snippet", i),
     source |-> source]

\* C5 as the specification states it: on a client configured with
\* {"serp": {"api_key": k}}, search("serp", q) returns one result per
\* organic_results entry, in upstream order, each with source "serp:google".
C5_SourceIsProviderKey ==
    (/\ last.op = "search"
     /\ last.provider = <<"serp">>
     /\ last.kwargs = << >>
     /\ last.scen.ok
     /\ Configs(last.client) = <<[k |-> <<"serp">>, v |-> [api_key |-> <<"k">>]]>>)
        => /\ last.err = NoErr
           /\ last.results =
                [i \in 1..last.scen.n |-> ExpectedOrganic(i, <<"serp", ":", "google">>)]

\* C5, amended: the same, with source "serpapi:google": the tag names the
\* backend, not the key the caller used.
C5_SourceIsSerpapi ==
    (/\ last.op = "search"
     /\ last.provider = <<"serp">>
     /\ last.kwargs = << >>
     /\ last.scen.ok
     /\ Configs(last.client) = <<[k |-> <<"serp">>, v |-> [api_key |-> <<"k">>]]>>)
        => /\ last.err = NoErr
           /\ last.results =
                [i \in 1..last.scen.n |-> ExpectedOrganic(i, <<"serpapi", ":", "google">>)]

C5_Witness ==
    /\ last.op = "search"
    /\ last.provider = <<"serp">>
    /\ last.kwargs = << >>
    /\ Configs(last.client) = <<[k |-> <<"serp">>, v |-> [api_key |-> <<"k">>]]>>
    /\ last.scen.ok
    /\ last.scen.n = 2
    /\ Len(last.results) = 2

\* C6: with YOU_COM_API_KEY set, SearchClient({"you.com": {}}) succeeds and
\* holds an adapter for "you.com"; search("you.com", q) sends the web-search
\* request; search("you.com:get_news", q) sends the news request and returns
\* one result per news entry, each with source "you.com:news".
C6_YouComIsAProviderKey ==
    "YOU_COM_API_KEY" \in env =>
        /\ (/\ last.op = "new"
            /\ last.given
            /\ last.cfg = <<[k |-> <<"you", ".com">>, v |-> << >>]>>)
              => /\ last.err = NoErr
                 /\ clients[last.client].alive
                 /\ <<"you", ".com">> \in DOMAIN clients[last.client].providers
        /\ (last.op = "search" /\ last.provider = <<"you", ".com">> /\ last.kwargs = << >>)
              => /\ Len(last.calls) = 1
                 /\ last.calls[1].endpoint = "you/search"
        /\ (/\ last.op = "search"
            /\ last.provider = <<"you", ".com", ":", "get_news">>
            /\ last.kwargs = << >>)
              => /\ Len(last.calls) = 1
                 /\ last.calls[1].endpoint = "you/news"
                 /\ last.scen.ok =>
                      /\ Len(last.results) = last.scen.n
                      /\ \A i \in 1..Len(last.results) :
                            last.results[i].source = <<"you", ".com", ":", "news">>

\* C8: with a meta-search adapter cached or its credential in the environment, "serp" and
\* "serp:" send engine google, "serp:youtube" sends engine youtube and maps
\* video_results, and "serp:" + s for any other s, colons included, sends
\* engine s exactly and maps organic_results.
C8_FirstColonThenVerbatim ==
    (/\ last.op = "search"
     /\ last.kwargs = << >>
     /\ Len(last.provider) >= 1
     /\ last.provider[1] = "serp"
     /\ Len(last.provider) >= 2 => last.provider[2] = ":"
     /\ \/ "SERP_API_KEY" \in env
        \/ <<"serp">> \in DOMAIN clients[last.client].providers)
        => LET s == SubSeq(last.provider, 3, Len(last.provider))
               n == last.scen.n
           IN  /\ Len(last.calls) = 1
               /\ last.calls[1].endpoint = "serpapi"
               /\ last.calls[1].params["q"] = <<"cats">>
               /\ last.calls[1].params["engine"] = IF s = << >> THEN <<"google">> ELSE s
               /\ last.scen.ok =>
                    /\ last.err = NoErr
                    /\ Len(last.results) = n
                    /\ \A i \in 1..n :
                          IF s = <<"youtube">>
                          THEN /\ last.results[i].title = Val("title", i)
                               /\ last.results[i].url = Val("link", i)
                               /\ last.results[i].source = <<"serpapi", ":", "youtube">>
                          ELSE last.results[i] =
                                  ExpectedOrganic(i, <<"serpapi", ":">>
                                                       \o (IF s = << >> THEN <<"google">> ELSE s))

\* A sub-function holding a colon reached the upstream call whole.
C8_Witness ==
    /\ last.op = "search"
    /\ last.provider = <<"serp", ":", "bing", ":", "x">>
    /\ last.kwargs = << >>
    /\ Len(last.calls) = 1
    /\ last.calls[1].params["engine"] = <<"bing", ":", "x">>
    /\ Len(last.results) = 2

\* The adapter path a provider string selects.
PathOf(provider) ==
    LET k == SpecKey(provider)
        sub == SpecSub(provider)
    IN  CASE k = <<"serp">> /\ sub = <<"youtube">> -> "serp youtube"
          [] k = <<"serp">> /\ sub # <<"youtube">> -> "serp default"
          [] k = <<"tavily">> -> "tavily"
          [] k = <<"you">> /\ sub = <<"get_news">> -> "you news"
          [] OTHER -> "you web"

\* The result array a path reads from a body, empty when the body has none.
UpstreamEntries(path, body) ==
    CASE path = "serp youtube" -> Get(body, "video_results", << >>)
      [] path = "serp default" -> Get(body, "organic_results", << >>)
      [] path = "tavily" -> Get(body, "results", << >>)
      [] path = "you news" -> Get(Get(body, "news", << >>), "results", << >>)
      [] OTHER -> Get(body, "hits", << >>)

\* The upstream fields a normalized field is made from, per path.
Counterparts(path, field) ==
    CASE field = "title" -> {"title"}
      [] field = "url" -> IF path \in {"serp youtube", "serp default"} THEN {"link"} ELSE {"url"}
      [] path = "serp youtube" -> {"duration", "views", "channel", "description"}
      [] path = "serp default" -> {"snippet"}
      [] path = "tavily" -> {"content"}
      [] path = "you news" -> {"description"}
      [] OTHER -> {"description", "snippets"}

BareVideoContent ==
    <<"Duration", ":", " ", "N/A", " | ", "Views", ":", " ", "N/A", " | ",
      "Channel", ":", " ", "N/A", " | ", "Description", ":", " ">>

\* C7 as the specification states it: on every path a search returns, with
\* one result per upstream entry (none when the body has no result array),
\* each result has the four fields, and title, url and content are the empty
\* string when the upstream fields they are made from are all missing.
C7_MissingFieldsAreEmpty ==
    last.op = "search" =>
        LET path == PathOf(last.provider)
            entries == UpstreamEntries(path, upstream.body)
        IN  /\ last.err = NoErr
            /\ Len(last.results) = Len(entries)
            /\ \A i \in 1..Len(last.results) :
                  /\ DOMAIN last.results[i] = {"title", "url", "content", "source"}
                  /\ \A f \in {"title", "url", "content"} :
                        Counterparts(path, f) \cap DOMAIN entries[i] = {}
                            => last.results[i][f] = << >>

\* C7, amended: the same, except that the content of a video result is never
\* empty: it is the labelled string, "N/A" standing for a missing duration,
\* view count or channel name and nothing for a missing description.
C7_MissingFieldsAreEmptyButVideoContent ==
    last.op = "search" =>
        LET path == PathOf(last.provider)
            entries == UpstreamEntries(path, upstream.body)
        IN  /\ last.err = NoErr
            /\ Len(last.results) = Len(entries)
            /\ \A i \in 1..Len(last.results) :
                  /\ DOMAIN last.results[i] = {"title", "url", "content", "source"}
                  /\ last.results[i].source # << >>
                  /\ \A f \in {"title", "url", "content"} :
                        Counterparts(path, f) \cap DOMAIN entries[i] = {}
                            => last.results[i][f] =
                                  IF path = "serp youtube" /\ f = "content"
                                  THEN BareVideoContent
                                  ELSE << >>

\* The video path normalized an entry that holds no field at all.
C7_Witness ==
    /\ last.op = "search"
    /\ last.err = NoErr
    /\ PathOf(last.provider) = "serp youtube"
    /\ Len(last.results) = 1
    /\ DOMAIN UpstreamEntries("serp youtube", upstream.body)[1] = {}
    /\ last.results[1].title = << >>
    /\ last.results[1].content = BareVideoContent

====
